---------------------------- MODULE Spec2Model ----------------------------
(***************************************************************************)
(* A model of rka2005/DWLR-Prediction:                                     *)
(*   load_data.py  load_csv_to_mongodb: clean groundwater.csv, clear the   *)
(*                 collection, insert the records in batches with one      *)
(*                 retry per batch;                                        *)
(*   forecast.py   run_prediction_pipeline: per state, load the history,   *)
(*                 fit and predict, save the graph, count the outcome;     *)
(*                 classify_risk: level -> risk tier.                      *)
(*                                                                         *)
(* The document store (pymongo), Prophet and matplotlib are outside the    *)
(* repository.  Each call into them is a step whose outcome (return or     *)
(* raise) is chosen nondeterministically.  insert_many is taken to be      *)
(* all-or-nothing: a call that raises commits none of its batch.           *)
(***************************************************************************)
EXTENDS Integers, Sequences, FiniteSets, TLC

VARIABLES
    \* ---- load_data.py
    csv,          \* groundwater.csv: [readable, hasTime, rows]
    raw_col,      \* the collection: the sequence of stored documents
    pc,           \* position of load_csv_to_mongodb
    df,           \* the cleaned data frame (sequence of rows)
    records,      \* df.to_dict('records')
    i,            \* the batch loop's index
    batch,        \* the batch bound by line 67
    calls,        \* the store calls this run has issued, in order
    log,          \* this run's log lines, in order
    result,       \* how the current/last call of the command ended
    runs,         \* how many times the command has been invoked
    history,      \* per finished run: how it ended and what the collection held
    \* ---- forecast.py, run_prediction_pipeline
    ppc,          \* position of run_prediction_pipeline
    states,       \* the entities of raw_col.distinct("state") not yet visited
    state,        \* the loop variable
    hist,         \* df of the current entity (load_state_data's result)
    forecast,     \* (model, forecast) of the current entity (train_and_predict's result)
    steps,        \* per entity, the functions called for it, in order
    outcome,      \* per entity, how its iteration ended
    successful_states,
    failed_states,
    summary,      \* the summary line of line 190, once logged
    \* ---- forecast.py, classify_risk
    level,        \* the argument
    tier,         \* the value returned
    \* ---- forecast.py, the file name of save_predictions_graph
    state_name,   \* the argument state, character by character
    filepath      \* the value of filepath at line 142

ingestVars == <<csv, pc, df, records, i, batch, calls, log, result, runs, history>>
pipeVars   == <<ppc, states, state, hist, forecast, steps, outcome,
                successful_states, failed_states, summary>>
riskVars   == <<level, tier>>
nameVars   == <<state_name, filepath>>
vars       == <<ingestVars, raw_col, pipeVars, riskVars, nameVars>>

----------------------------------------------------------------------------
(* Bounds of the model *)

\* batch_size of load_data.py:60 is 5000; the model runs the same loop
\* with a small batch size so that several batches fit in MaxRows rows.
batch_size == 2
MaxRows == 5
MaxBad == 2
MaxRuns == 2
MaxStale == 1

Min(a, b) == IF a <= b THEN a ELSE b

----------------------------------------------------------------------------
(* groundwater.csv *)

\* A missing cell (pandas NaN / NaT).  A present cell is <<value>>.
NaN == << >>
NaT == << >>
isna(c) == c = << >>

Entities == {"A", "B", "C"}
EntityAt(k) == IF k % 2 = 1 THEN "A" ELSE "B"

\* Date cells: <<k>> with k >= 1 is text that parses to day k; <<0>> is
\* text that is no date.
RowKinds == {"good", "noState", "noLevel", "noDate", "badDate"}

RawRow(kind, k) ==
    [State |-> IF kind = "noState" THEN NaN ELSE <<EntityAt(k)>>,
     Date  |-> IF kind = "noDate" THEN NaN
               ELSE IF kind = "badDate" THEN <<0>> ELSE <<k>>,
     Time  |-> <<k>>,
     Water_Level_m_bgl |-> IF kind = "noLevel" THEN NaN ELSE <<k>>]

\* The files of at most MaxRows rows, at most MaxBad of them malformed.
RowSeqs ==
    UNION { { [k \in 1..n |-> RawRow(f[k], k)] :
                f \in { g \in [1..n -> RowKinds] :
                          Cardinality({k \in 1..n : g[k] # "good"}) <= MaxBad } }
            : n \in 0..MaxRows }

CsvInputs ==
    { [readable |-> TRUE, hasTime |-> TRUE, rows |-> r] : r \in RowSeqs }
    \cup { [readable |-> FALSE, hasTime |-> TRUE, rows |-> << >>],
           [readable |-> TRUE, hasTime |-> FALSE,
            rows |-> <<[State |-> <<"A">>, Date |-> <<1>>,
                        Water_Level_m_bgl |-> <<1>>]>>] }

\* What the collection may hold before the command runs.
StaleDoc(k) == [state |-> "C", date |-> k, water_level |-> k]
PriorStores == { [k \in 1..n |-> StaleDoc(k)] : n \in 0..MaxStale }

----------------------------------------------------------------------------
(* load_data.py: cleaning, lines 36-49 *)

\* pd.to_datetime(..., errors='ignore'): text that is no date stays as it is.
to_datetime_ignore(c) == c

\* pd.to_datetime(..., errors='coerce'): text that is no date becomes NaT.
to_datetime(c) == IF isna(c) THEN NaT ELSE IF c[1] >= 1 THEN c ELSE NaT

\* rename + drop('Time') + to_datetime on one row
CleanRow(r) ==
    [state |-> r.State, date |-> to_datetime(r.Date),
     water_level |-> r.Water_Level_m_bgl]

\* dropna(subset=['state', 'water_level', 'date'])
KeepRow(r) == ~isna(r.state) /\ ~isna(r.water_level) /\ ~isna(r.date)

dropna(s) == SelectSeq(s, KeepRow)

Clean(rows) == dropna([k \in 1..Len(rows) |-> CleanRow(rows[k])])

\* df.to_dict('records')
ToRecord(r) == [state |-> r.state[1], date |-> r.date[1],
                water_level |-> r.water_level[1]]
to_dict(d) == [k \in 1..Len(d) |-> ToRecord(d[k])]

\* A slice that takes one record too many.
SliceInclusive(s, a, b) == SubSeq(s, a + 1, Min(b + 1, Len(s)))

\* records[a:b]
Slice(s, a, b) == SubSeq(s, a + 1, Min(b, Len(s)))


----------------------------------------------------------------------------
(* load_data.py: the store calls and the log *)

Entry(lvl, msg, a, b) == <<lvl, msg, a, b>>

\* raw_col.insert_many(docs): all of docs on return, none of them on raise
insert_many(col, docs, ok) == IF ok THEN col \o docs ELSE col

\* A delete_many that clears nothing (append instead of replace).
delete_many_keeps(col, ok) == col

\* raw_col.delete_many({})
delete_many(col, ok) == IF ok THEN << >> ELSE col

InsertCall(idx, docs, retry, ok) ==
    [op |-> "insert_many", at |-> idx, docs |-> docs, retry |-> retry, ok |-> ok]
DeleteCall(ok) ==
    [op |-> "delete_many", at |-> 0, docs |-> << >>, retry |-> FALSE, ok |-> ok]

\* A progress that reports where the batch starts, not where it ends.
ProgressAtStart(idx, total) == idx

\* A progress count that is not capped by the total.
ProgressUncapped(idx, total) == idx + batch_size

\* line 69 / 78: progress = min(i + batch_size, total_records)
Progress(idx, total) == Min(idx + batch_size, total)
ProgressEntry(idx, total) == Entry("INFO", "Progress", Progress(idx, total), total)

\* range(0, total_records, batch_size): is there an index after idx?
HasNext(idx, total) == idx + batch_size < total

\* A handler that lets the exception leave the command.
OuterExceptReraises(lg) == [pc |-> "idle", log |-> lg, result |-> "raised"]

\* lines 89-90: the command's own handler logs the error; the function then
\* returns normally.
OuterExcept(lg) ==
    [pc |-> "idle",
     log |-> Append(lg, Entry("ERROR", "Error loading data", 0, 0)),
     result |-> "returned"]

\* A first failure that gives up at once, without a retry.
FirstFailureGivesUp(lg, idx) ==
    OuterExcept(Append(lg, Entry("ERROR", "Failed to insert batch", idx, 0)))

\* lines 73-75: the first attempt raised: warn, sleep, go to the retry
FirstFailure(lg, idx) ==
    [pc |-> "retry",
     log |-> Append(lg, Entry("WARNING", "Batch insertion failed, retrying", idx, 0)),
     result |-> "running"]

\* A retry failure that is swallowed: the loop tries the batch again.
RetryFailureSwallowed(lg, idx) ==
    [pc |-> "insert",
     log |-> Append(lg, Entry("ERROR", "Failed to insert batch", idx, 0)),
     result |-> "running"]

\* lines 81-83: the retry raised: log, re-raise; the exception leaves the
\* loop and reaches the handler of lines 89-90
RetryFailure(lg, idx) ==
    OuterExcept(Append(lg, Entry("ERROR", "Failed to insert batch", idx, 0)))

\* lines 92-93: the completion status of `python load_data.py`
ExitStatus(res) == IF res = "raised" THEN 1 ELSE 0

----------------------------------------------------------------------------
(* load_data.py: load_csv_to_mongodb *)

\* The command's call ends (by return or by raise): what an observer of
\* the run sees is appended to history.
Ends(res) ==
    history' = IF res \in {"returned", "raised"}
               THEN Append(history,
                           [result |-> res, count |-> Len(raw_col'),
                            clean |-> \A p \in 1..Len(calls') : calls'[p].ok])
               ELSE history

\* lines 92-93: the command is invoked
Invoke ==
    /\ pc = "idle"
    /\ runs < MaxRuns
    /\ pc' = "read"
    /\ runs' = runs + 1
    /\ df' = << >>
    /\ records' = << >>
    /\ i' = 0
    /\ batch' = << >>
    /\ calls' = << >>
    /\ log' = << >>
    /\ result' = "running"
    /\ UNCHANGED <<csv, raw_col, history, pipeVars, riskVars, nameVars>>

\* A command that clears the collection before it reads the file.
ReadAndCleanClearsFirst ==
    /\ pc = "read"
    /\ raw_col' = << >>
    /\ UNCHANGED <<csv, records, i, batch, calls, runs, pipeVars, riskVars, nameVars>>
    /\ IF ~csv.readable \/ ~csv.hasTime
       THEN /\ pc' = OuterExcept(log).pc
            /\ log' = OuterExcept(log).log
            /\ result' = OuterExcept(log).result
            /\ df' = df
       ELSE /\ df' = Clean(csv.rows)
            /\ log' = log \o <<Entry("INFO", "Loaded", Len(csv.rows), 0),
                               Entry("INFO", "After cleaning", Len(df'), 0)>>
            /\ pc' = "clear"
            /\ result' = result
    /\ Ends(result')

\* lines 32-51: read the file and clean it
ReadAndClean ==
    /\ pc = "read"
    /\ UNCHANGED <<csv, raw_col, records, i, batch, calls, runs, pipeVars, riskVars, nameVars>>
    /\ IF ~csv.readable
       THEN \* read_csv raises
            /\ pc' = OuterExcept(log).pc
            /\ log' = OuterExcept(log).log
            /\ result' = OuterExcept(log).result
            /\ df' = df
       ELSE IF ~csv.hasTime
       THEN \* df.drop('Time', axis=1) raises KeyError
            LET lg == Append(log, Entry("INFO", "Loaded", Len(csv.rows), 0)) IN
            /\ pc' = OuterExcept(lg).pc
            /\ log' = OuterExcept(lg).log
            /\ result' = OuterExcept(lg).result
            /\ df' = df
       ELSE /\ df' = Clean(csv.rows)
            /\ log' = log \o <<Entry("INFO", "Loaded", Len(csv.rows), 0),
                               Entry("INFO", "After cleaning", Len(df'), 0)>>
            /\ pc' = "clear"
            /\ result' = result
    /\ Ends(result')

\* lines 54-62 and 86-87: clear the collection, then enter the loop or warn
ClearCollection ==
    /\ pc = "clear"
    /\ UNCHANGED <<csv, df, batch, runs, pipeVars, riskVars, nameVars>>
    /\ i' = 0
    /\ \E ok \in BOOLEAN :
        /\ raw_col' = delete_many(raw_col, ok)
        /\ calls' = Append(calls, DeleteCall(ok))
        /\ IF ~ok
           THEN /\ pc' = OuterExcept(log).pc
                /\ log' = OuterExcept(log).log
                /\ result' = OuterExcept(log).result
                /\ records' = records
           ELSE IF Len(df) > 0
           THEN /\ records' = to_dict(df)
                /\ log' = Append(log, Entry("INFO", "Starting insertion",
                                            Len(df), batch_size))
                /\ pc' = "insert"
                /\ result' = result
           ELSE /\ log' = Append(log, Entry("WARNING", "No valid records to insert", 0, 0))
                /\ pc' = "idle"
                /\ result' = "returned"
                /\ records' = records
    /\ Ends(result')

\* What follows a batch that was inserted (first attempt or retry): the next
\* index of the range, or line 85 and the return.
AfterBatch(lg) ==
    IF HasNext(i, Len(records))
    THEN /\ i' = i + batch_size
         /\ pc' = "insert"
         /\ log' = lg
         /\ result' = result
    ELSE /\ i' = i
         /\ pc' = "idle"
         /\ log' = Append(lg, Entry("INFO", "Successfully inserted all",
                                    Len(records), 0))
         /\ result' = "returned"

\* lines 66-75: the first attempt of the batch at i
InsertBatch ==
    /\ pc = "insert"
    /\ UNCHANGED <<csv, df, records, runs, pipeVars, riskVars, nameVars>>
    /\ batch' = Slice(records, i, i + batch_size)
    /\ \E ok \in BOOLEAN :
        /\ raw_col' = insert_many(raw_col, batch', ok)
        /\ calls' = Append(calls, InsertCall(i, batch', FALSE, ok))
        /\ IF ok
           THEN AfterBatch(Append(log, ProgressEntry(i, Len(records))))
           ELSE /\ pc' = FirstFailure(log, i).pc
                /\ log' = FirstFailure(log, i).log
                /\ result' = FirstFailure(log, i).result
                /\ i' = i
    /\ Ends(result')

\* lines 76-83: the retry of the batch at i
RetryBatch ==
    /\ pc = "retry"
    /\ UNCHANGED <<csv, df, records, batch, runs, pipeVars, riskVars, nameVars>>
    /\ \E ok \in BOOLEAN :
        /\ raw_col' = insert_many(raw_col, batch, ok)
        /\ calls' = Append(calls, InsertCall(i, batch, TRUE, ok))
        /\ IF ok
           THEN AfterBatch(Append(log, ProgressEntry(i, Len(records))))
           ELSE /\ pc' = RetryFailure(log, i).pc
                /\ log' = RetryFailure(log, i).log
                /\ result' = RetryFailure(log, i).result
                /\ i' = i
    /\ Ends(result')

\* forecast.py is not running
IdlePipe ==
    /\ ppc = "off" /\ states = {} /\ state = "" /\ hist = << >>
    /\ forecast = << >> /\ steps = [e \in Entities |-> << >>]
    /\ outcome = [e \in Entities |-> "none"]
    /\ successful_states = 0 /\ failed_states = 0 /\ summary = << >>

IdleRisk == level = [nan |-> FALSE, v |-> 0] /\ tier = "none"

\* save_predictions_graph is not building a file name
IdleName == state_name = << >> /\ filepath = << >>

InitIngest ==
    /\ csv \in CsvInputs
    /\ raw_col \in PriorStores
    /\ pc = "idle"
    /\ df = << >> /\ records = << >> /\ i = 0 /\ batch = << >>
    /\ calls = << >> /\ log = << >> /\ result = "none" /\ runs = 0
    /\ history = << >>
    /\ IdlePipe /\ IdleRisk /\ IdleName

NextIngest ==
    \/ Invoke
    \/ ReadAndClean
    \/ ClearCollection
    \/ InsertBatch
    \/ RetryBatch

SpecIngest == InitIngest /\ [][NextIngest]_vars


----------------------------------------------------------------------------
(* forecast.py: configuration and the functions the pipeline calls *)

YEARS_TO_PREDICT == 5
MIN_DATA_POINTS == 10
MaxHist == 11

None == << >>

\* The histories an entity may have in the collection: none at all, or a
\* length around MIN_DATA_POINTS.
HistLens == {0} \cup {n \in 1..MaxHist : n >= MIN_DATA_POINTS - 1}

\* The documents of entity e when it has n of them, latest date first.
EntityDocs(e, n) ==
    [k \in 1..n |-> [state |-> e, date |-> n + 1 - k, water_level |-> k]]

PipelineStores ==
    { EntityDocs("A", c["A"]) \o EntityDocs("B", c["B"]) \o EntityDocs("C", c["C"]) :
        c \in [Entities -> HistLens] }

\* raw_col.distinct("state")
distinct(col) == { col[k].state : k \in 1..Len(col) }

\* raw_col.find({"state": s}, {"_id": 0, "date": 1, "water_level": 1})
find(col, s) ==
    LET Matches(d) == d.state = s
        found == SelectSeq(col, Matches)
    IN  [k \in 1..Len(found) |->
            [date |-> found[k].date, water_level |-> found[k].water_level]]

\* df.sort_values("ds"): row j goes to the place given by the number of
\* rows before it in the order (rows of equal ds keep their order)
Rank(d, j) ==
    Cardinality({m \in 1..Len(d) :
                   d[m].ds < d[j].ds \/ (d[m].ds = d[j].ds /\ m < j)})
Sorted(x) ==
    [k \in 1..Len(x) |-> x[CHOOSE j \in 1..Len(x) : Rank(x, j) = k - 1]]
sort_values(d) == CHOOSE r \in { Sorted(x) : x \in {d} } : TRUE

\* lines 54-75
load_state_data(col, s) ==
    LET recs == find(col, s) IN
    IF Len(recs) < MIN_DATA_POINTS THEN None
    ELSE sort_values([k \in 1..Len(recs) |->
                        [ds |-> recs[k].date, y |-> recs[k].water_level]])

\* model.make_future_dataframe(periods=YEARS_TO_PREDICT, freq="YE"): the
\* history's periods, then YEARS_TO_PREDICT periods after the last one
make_future_dataframe(d) ==
    [k \in 1..(Len(d) + YEARS_TO_PREDICT) |->
        IF k <= Len(d) THEN d[k].ds ELSE d[Len(d)].ds + (k - Len(d))]

\* model.predict(future): one row per period
predict(future) == [k \in 1..Len(future) |-> [ds |-> future[k]]]

\* forecast.head(n): the first n rows instead of the last
head(f, n) == SubSeq(f, 1, n)

\* forecast.tail(n)
tail(f, n) == SubSeq(f, Len(f) - n + 1, Len(f))

\* A train_and_predict that hands back what it has when fitting raises.
train_and_predict_partial(d, out) ==
    [model |-> <<"Prophet">>,
     forecast |-> tail(predict(make_future_dataframe(d)), YEARS_TO_PREDICT)]

\* A train_and_predict without the KeyboardInterrupt clause's null result.
train_and_predict_interrupt_kept(d, out) ==
    IF out = "error"
    THEN [model |-> None, forecast |-> None]
    ELSE [model |-> <<"Prophet">>,
          forecast |-> tail(predict(make_future_dataframe(d)), YEARS_TO_PREDICT)]

\* lines 78-104; out is what model.fit does: "ok", "error" (raises an
\* Exception) or "interrupt" (KeyboardInterrupt)
train_and_predict(d, out) ==
    IF out = "ok"
    THEN [model |-> <<"Prophet">>,
          forecast |-> tail(predict(make_future_dataframe(d)), YEARS_TO_PREDICT)]
    ELSE [model |-> None, forecast |-> None]

\* lines 107-150; out is what plotting and savefig do.  The path on
\* success, None when an Exception was caught.
save_predictions_graph(s, out) ==
    IF out = "ok" THEN <<"predictions", s, "_forecast.png">> ELSE None

\* An except clause that forgets to count the entity.
ExceptEntityUncounted(failed) == [ppc |-> "loop", failed_states |-> failed]

\* An except clause that lets the error end the run.
ExceptEntityEscapes(failed) == [ppc |-> "crashed", failed_states |-> failed]

\* lines 184-187: except Exception around one entity's steps
ExceptEntity(failed) == [ppc |-> "loop", failed_states |-> failed + 1]

\* A skip that is counted as a failure.
NotEnoughDataCounted(failed) ==
    [ppc |-> "loop", failed_states |-> failed + 1, outcome |-> "failed"]

\* lines 167-169: df is None: warn and continue
NotEnoughData(failed) ==
    [ppc |-> "loop", failed_states |-> failed, outcome |-> "skipped"]

Outcomes == {"ok", "error", "interrupt"}

----------------------------------------------------------------------------
(* forecast.py: run_prediction_pipeline *)

Called(fn, out) == steps' = [steps EXCEPT ![state] = Append(@, <<fn, out>>)]

\* lines 155-160: enumerate the entities; this call is outside any try
StartPipeline ==
    /\ ppc = "off"
    /\ \E ok \in BOOLEAN :
         IF ok
         THEN /\ states' = distinct(raw_col)
              /\ ppc' = "loop"
         ELSE /\ states' = states
              /\ ppc' = "crashed"
    /\ successful_states' = 0
    /\ failed_states' = 0
    /\ UNCHANGED <<state, hist, forecast, steps, outcome, summary,
                   raw_col, ingestVars, riskVars, nameVars>>

\* line 162: the loop takes the next entity, in the order the store gave
NextEntity ==
    /\ ppc = "loop"
    /\ states # {}
    /\ \E s \in states :
         /\ state' = s
         /\ states' = states \ {s}
    /\ ppc' = "load"
    /\ UNCHANGED <<hist, forecast, steps, outcome, successful_states,
                   failed_states, summary, raw_col, ingestVars, riskVars, nameVars>>

\* lines 166-169 (and 184-187 when the load raises)
LoadStateData ==
    /\ ppc = "load"
    /\ \E out \in Outcomes :
         /\ Called("load_state_data", out)
         /\ IF out = "interrupt"
            THEN \* KeyboardInterrupt is no Exception: it leaves the function
                 /\ ppc' = "interrupted"
                 /\ UNCHANGED <<hist, outcome, failed_states>>
            ELSE IF out = "error"
            THEN /\ ppc' = ExceptEntity(failed_states).ppc
                 /\ failed_states' = ExceptEntity(failed_states).failed_states
                 /\ outcome' = [outcome EXCEPT ![state] = "failed"]
                 /\ hist' = hist
            ELSE /\ hist' = load_state_data(raw_col, state)
                 /\ IF hist' = None
                    THEN /\ ppc' = NotEnoughData(failed_states).ppc
                         /\ failed_states' = NotEnoughData(failed_states).failed_states
                         /\ outcome' = [outcome EXCEPT ![state] =
                                          NotEnoughData(failed_states).outcome]
                    ELSE /\ ppc' = "fit"
                         /\ UNCHANGED <<outcome, failed_states>>
    /\ UNCHANGED <<states, state, forecast, successful_states, summary,
                   raw_col, ingestVars, riskVars, nameVars>>

\* lines 171-175
TrainAndPredict ==
    /\ ppc = "fit"
    /\ \E out \in Outcomes :
         /\ Called("train_and_predict", out)
         /\ forecast' = train_and_predict(hist, out)
         /\ IF forecast'.forecast = None \/ forecast'.model = None
            THEN /\ failed_states' = failed_states + 1
                 /\ outcome' = [outcome EXCEPT ![state] = "failed"]
                 /\ ppc' = "loop"
            ELSE /\ ppc' = "render"
                 /\ UNCHANGED <<outcome, failed_states>>
    /\ UNCHANGED <<states, state, hist, successful_states, summary,
                   raw_col, ingestVars, riskVars, nameVars>>

\* lines 177-182
SavePredictionsGraph ==
    /\ ppc = "render"
    /\ \E out \in Outcomes :
         /\ Called("save_predictions_graph", out)
         /\ IF out = "interrupt"
            THEN /\ ppc' = "interrupted"
                 /\ UNCHANGED <<outcome, successful_states, failed_states>>
            ELSE /\ ppc' = "loop"
                 /\ IF save_predictions_graph(state, out) # None
                    THEN /\ successful_states' = successful_states + 1
                         /\ outcome' = [outcome EXCEPT ![state] = "succeeded"]
                         /\ failed_states' = failed_states
                    ELSE /\ failed_states' = failed_states + 1
                         /\ outcome' = [outcome EXCEPT ![state] = "failed"]
                         /\ successful_states' = successful_states
    /\ UNCHANGED <<states, state, hist, forecast, summary,
                   raw_col, ingestVars, riskVars, nameVars>>

\* lines 189-191: the loop is over: the summary
Finish ==
    /\ ppc = "loop"
    /\ states = {}
    /\ summary' = <<successful_states, failed_states>>
    /\ ppc' = "done"
    /\ UNCHANGED <<states, state, hist, forecast, steps, outcome,
                   successful_states, failed_states, raw_col, ingestVars, riskVars, nameVars>>

\* load_data.py is not running
IdleIngest ==
    /\ csv = [readable |-> FALSE, hasTime |-> FALSE, rows |-> << >>]
    /\ pc = "idle"
    /\ df = << >> /\ records = << >> /\ i = 0 /\ batch = << >>
    /\ calls = << >> /\ log = << >> /\ result = "none" /\ runs = 0
    /\ history = << >>

InitPipeline ==
    /\ raw_col \in PipelineStores
    /\ IdlePipe /\ IdleIngest /\ IdleRisk /\ IdleName

NextPipeline ==
    \/ StartPipeline
    \/ NextEntity
    \/ LoadStateData
    \/ TrainAndPredict
    \/ SavePredictionsGraph
    \/ Finish

SpecPipeline == InitPipeline /\ [][NextPipeline]_vars

\* One thread runs the function from its first line to its last: a step
\* that can be taken is taken.
FairPipeline == SpecPipeline /\ WF_vars(NextPipeline)

----------------------------------------------------------------------------
(* forecast.py: classify_risk *)

MaxLevel == 6000
MaxNameLen == 3

\* A level in thousandths; nan is a float that is no number.
Milli(x) == x * 1000
Levels == { [nan |-> FALSE, v |-> k] : k \in (0 - MaxLevel)..MaxLevel }
          \cup { [nan |-> TRUE, v |-> 0] }

\* level < c on floats: false when level is nan
Less(l, c) == ~l.nan /\ l.v < c

\* Thresholds that take the boundary values into the lower tier.
classify_risk_inclusive(l) ==
    IF ~l.nan /\ l.v <= Milli(3) THEN "EMERGENCY"
    ELSE IF ~l.nan /\ l.v <= Milli(5) THEN "WARNING"
    ELSE "SAFE"

\* lines 41-51
classify_risk(l) ==
    IF Less(l, Milli(3)) THEN "EMERGENCY"
    ELSE IF Less(l, Milli(5)) THEN "WARNING"
    ELSE "SAFE"

\* the call classify_risk(level)
ClassifyRisk ==
    /\ tier = "none"
    /\ tier' = classify_risk(level)
    /\ UNCHANGED <<level, raw_col, ingestVars, pipeVars, nameVars>>

InitRisk ==
    /\ level \in Levels
    /\ tier = "none"
    /\ raw_col = << >> /\ IdleIngest /\ IdlePipe /\ IdleName

NextRisk == ClassifyRisk

SpecRisk == InitRisk /\ [][NextRisk]_vars

----------------------------------------------------------------------------
(* forecast.py: the file name of the graph, lines 141-142 *)

\* The characters of an entity id: a letter, a digit, the space, and two
\* characters that are neither letters nor digits.
Alnum == {"a", "7"}
Chars == Alnum \cup {" ", "&", "_"}
Names == UNION { [1..n -> Chars] : n \in 0..MaxNameLen }

OUTPUT_DIR == "predictions"
Suffix == <<"_", "f", "o", "r", "e", "c", "a", "s", "t", ".", "p", "n", "g">>

\* A replace that stops after the first occurrence.
replace_first(s, old, new) ==
    [k \in 1..Len(s) |->
        IF s[k] = old /\ (\A j \in 1..(k - 1) : s[j] # old) THEN new ELSE s[k]]

\* str.replace(old, new) for one-character old and new
replace(s, old, new) == [k \in 1..Len(s) |-> IF s[k] = old THEN new ELSE s[k]]

\* line 141: f"{state.replace(' ', '_')}_forecast.png"
filename(s) == replace(s, " ", "_") \o Suffix

\* line 142: os.path.join(OUTPUT_DIR, filename)
join(dir, name) == [dir |-> dir, name |-> name]

\* lines 141-142 for the argument state_name
BuildFilepath ==
    /\ filepath = << >>
    /\ filepath' = join(OUTPUT_DIR, filename(state_name))
    /\ UNCHANGED <<state_name, raw_col, ingestVars, pipeVars, riskVars>>

InitName ==
    /\ state_name \in Names
    /\ filepath = << >>
    /\ raw_col = << >> /\ IdleIngest /\ IdlePipe /\ IdleRisk

NextName == BuildFilepath

SpecName == InitName /\ [][NextName]_vars

----------------------------------------------------------------------------
(* Ingestion: what the claims speak of *)

total_records == Len(records)

\* The rows of the file that cleaning must keep, counted on the raw cells.
NumValid(rows) ==
    Cardinality({k \in 1..Len(rows) :
                   /\ rows[k].State # << >>
                   /\ rows[k].Water_Level_m_bgl # << >>
                   /\ rows[k].Date # << >>
                   /\ rows[k].Date # <<0>>})

IsInsert(c) == c.op = "insert_many"
FailedFirst(p) == IsInsert(calls[p]) /\ ~calls[p].retry /\ ~calls[p].ok
FailedRetry(p) == IsInsert(calls[p]) /\ calls[p].retry /\ ~calls[p].ok

\* The command has been run and has ended.
RunEnded == pc = "idle" /\ runs >= 1

\* The run got past the clear step and no batch failed twice.
NoFatal ==
    /\ calls # << >>
    /\ \A p \in 1..Len(calls) :
         ~calls[p].ok => /\ FailedFirst(p)
                         /\ p < Len(calls)
                         /\ calls[p + 1].ok

\* The last call of the run is a retry that failed.
RetryExhausted == calls # << >> /\ FailedRetry(Len(calls))

IsProgress(e) == e[2] = "Progress"
Observations == SelectSeq(log, IsProgress)
Ceil(n, b) == (n + b - 1) \div b

(* C1: a batch whose first insert_many fails is retried exactly once, with  *)
(* nothing in between; when that retry succeeds the loop goes on with the   *)
(* next batch (or finishes, if it was the last); and a run that ends with   *)
(* every failed batch retried successfully leaves exactly total_records     *)
(* documents in the collection.                                             *)
C1_RetryOnceThenContinue ==
    /\ \A p \in 1..Len(calls) :
         FailedFirst(p) =>
           /\ IF p = Len(calls)
              THEN pc = "retry" /\ i = calls[p].at
              ELSE /\ calls[p + 1].retry
                   /\ calls[p + 1].at = calls[p].at
           /\ Cardinality({q \in 1..Len(calls) :
                             calls[q].retry /\ calls[q].at = calls[p].at}) <= 1
           /\ (p < Len(calls) /\ calls[p + 1].ok) =>
                IF calls[p].at + batch_size < total_records
                THEN IF p + 1 = Len(calls)
                     THEN pc = "insert" /\ i = calls[p].at + batch_size
                     ELSE /\ ~calls[p + 2].retry
                          /\ calls[p + 2].at = calls[p].at + batch_size
                ELSE p + 1 = Len(calls) /\ pc = "idle" /\ result = "returned"
    /\ (RunEnded /\ NoFatal) =>
         /\ Len(raw_col) = total_records
         /\ total_records = NumValid(csv.rows)

C1_Witness ==
    /\ RunEnded /\ NoFatal
    /\ total_records = 5
    /\ \E p \in 1..Len(calls) : FailedFirst(p) /\ calls[p].at = 2
    /\ Len(raw_col) = 5

(* C2: once a batch's retry has failed, that failed retry is the last store *)
(* call of the run (no further insert for that or any later batch), the     *)
(* command has ended, and the collection holds exactly the records of the   *)
(* batches before the failing one, records[0:i].                            *)
C2_FatalKeepsPriorBatches ==
    \A p \in 1..Len(calls) :
        FailedRetry(p) =>
          /\ p = Len(calls)
          /\ pc = "idle"
          /\ result # "running"
          /\ raw_col = SubSeq(records, 1, calls[p].at)
          /\ Len(raw_col) < total_records

C2_Witness ==
    /\ RetryExhausted
    /\ calls[Len(calls)].at = 2
    /\ Len(raw_col) = 2
    /\ total_records = 5

(* C3 as claimed: after a batch's retry is exhausted the error leaves       *)
(* load_csv_to_mongodb as an exception and the command's completion status  *)
(* is non-zero.                                                             *)
C3_Claimed_ErrorPropagates ==
    (RunEnded /\ RetryExhausted) =>
        result = "raised" /\ ExitStatus(result) # 0

(* C3 as amended: after a batch's retry is exhausted the error ends the     *)
(* batch loop, is caught by the command's own handler (lines 89-90), which  *)
(* logs it as an error; the command then returns normally, completion       *)
(* status 0, without the success line of line 85.                           *)
C3_ErrorLoggedAndReturns ==
    RetryExhausted =>
        /\ RunEnded
        /\ result = "returned"
        /\ ExitStatus(result) = 0
        /\ Len(log) >= 2
        /\ log[Len(log)] = Entry("ERROR", "Error loading data", 0, 0)
        /\ log[Len(log) - 1] = Entry("ERROR", "Failed to insert batch", i, 0)
        /\ \A k \in 1..Len(log) : log[k][2] # "Successfully inserted all"

C3_Witness ==
    /\ RunEnded /\ RetryExhausted
    /\ result = "returned"
    /\ Len(raw_col) >= 2

(* C9: with the file readable, every run in which every store call          *)
(* succeeded ends with exactly the number of valid input records in the     *)
(* collection, so two such runs in a row end with the same count, whatever  *)
(* the collection held before each.                                         *)
C9_FullReplaceIdempotent ==
    (csv.readable /\ csv.hasTime) =>
        /\ \A r \in 1..Len(history) :
             history[r].clean => history[r].count = NumValid(csv.rows)
        /\ \A r1, r2 \in 1..Len(history) :
             (history[r1].clean /\ history[r2].clean)
                => history[r1].count = history[r2].count

C9_Witness ==
    /\ csv.readable /\ csv.hasTime
    /\ Len(history) = 2
    /\ history[1].clean /\ history[2].clean
    /\ history[1].count = 5 /\ history[2].count = 5

(* C10: the progress observations of a run are, in order, one per           *)
(* successful insert_many (first attempt or retry), the k-th carrying       *)
(* (min(k*batch_size, N), N) with N = total_records, strictly increasing;   *)
(* a run that ends without a fatal failure has emitted exactly              *)
(* ceil(N/batch_size) of them, the last carrying N.                         *)
C10_ProgressObservations ==
    LET obs == Observations
        N   == total_records
    IN  /\ Len(obs) = Cardinality({p \in 1..Len(calls) :
                                     IsInsert(calls[p]) /\ calls[p].ok})
        /\ \A k \in 1..Len(obs) :
             obs[k] = Entry("INFO", "Progress", Min(k * batch_size, N), N)
        /\ \A k \in 1..(Len(obs) - 1) : obs[k][3] < obs[k + 1][3]
        /\ (RunEnded /\ NoFatal /\ N > 0) =>
             /\ Len(obs) = Ceil(N, batch_size)
             /\ obs[Len(obs)][3] = N

C10_Witness ==
    /\ RunEnded /\ NoFatal
    /\ total_records = 5
    /\ Len(Observations) = 3
    /\ \E p \in 1..Len(calls) : FailedFirst(p)

(* C11: in a run whose cleaning yields zero valid records the only store   *)
(* call is the delete_many of line 54: no insert_many is issued and no      *)
(* progress is logged; once that delete_many has returned the collection is *)
(* empty and the command ends with the warning of line 87, no error line,   *)
(* and a normal return.                                                     *)
CleanedEmpty ==
    /\ csv.readable /\ csv.hasTime
    /\ runs >= 1 /\ pc # "read"
    /\ NumValid(csv.rows) = 0

C11_EmptyInputClearsAndWarns ==
    CleanedEmpty =>
      /\ df = << >>
      /\ \A p \in 1..Len(calls) : calls[p].op = "delete_many" /\ p = 1
      /\ Observations = << >>
      /\ pc \in {"clear", "idle"}
      /\ (calls # << >> /\ calls[1].ok) =>
           /\ raw_col = << >>
           /\ RunEnded
           /\ result = "returned"
           /\ ExitStatus(result) = 0
           /\ log[Len(log)] = Entry("WARNING", "No valid records to insert", 0, 0)
           /\ \A k \in 1..Len(log) : log[k][1] # "ERROR"

C11_Witness ==
    /\ CleanedEmpty
    /\ Len(csv.rows) = 2
    /\ RunEnded
    /\ calls = <<DeleteCall(TRUE)>>
    /\ raw_col = << >>
    /\ runs = 1
    /\ log[Len(log)][1] = "WARNING"

(* C15: the insert_many calls of a run cut the cleaned records, kept in the *)
(* order of the file, into consecutive batches: each call carries the       *)
(* records from its index up to batch_size further (fewer only at the end   *)
(* of the list, never none), the committed batches start at 0, batch_size,  *)
(* 2*batch_size, ... and laid end to end are what the collection holds, all *)
(* the records once the run succeeds; a retry carries the records of the    *)
(* failed call before it.                                                   *)
Inserting == \E p \in 1..Len(calls) : IsInsert(calls[p])
IsCommitted(c) == IsInsert(c) /\ c.ok
Committed == SelectSeq(calls, IsCommitted)
Succeeded == RunEnded /\ log[Len(log)][2] = "Successfully inserted all"

C15_BatchesPartitionRecords ==
    Inserting =>
      /\ Len(records) = NumValid(csv.rows)
      /\ \A k \in 1..(Len(records) - 1) : records[k].date < records[k + 1].date
      /\ \A p \in 1..Len(calls) : IsInsert(calls[p]) =>
           LET c == calls[p]
               n == Len(c.docs)
           IN  /\ c.at % batch_size = 0
               /\ n >= 1 /\ n <= batch_size
               /\ n < batch_size => c.at + n = Len(records)
               /\ \A j \in 1..n : c.docs[j] = records[c.at + j]
               /\ c.retry =>
                    /\ FailedFirst(p - 1)
                    /\ calls[p - 1].at = c.at
                    /\ calls[p - 1].docs = c.docs
               /\ ~c.retry => p = 2 \/ calls[p - 1].ok
      /\ \A k \in 1..Len(Committed) :
           /\ Committed[k].at = (k - 1) * batch_size
           /\ \A j \in 1..Len(Committed[k].docs) :
                raw_col[(k - 1) * batch_size + j] = Committed[k].docs[j]
      /\ Len(raw_col) = Min(Len(Committed) * batch_size, Len(records))
      /\ Succeeded => raw_col = records

C15_Witness ==
    /\ Succeeded
    /\ Len(records) = 2 * batch_size + 1
    /\ Len(Committed) = 3
    /\ Len(Committed[3].docs) = 1
    /\ \E p \in 1..Len(calls) : FailedFirst(p)
    /\ raw_col = records

(* C16: whatever rows the file holds, cleaning raises nothing and keeps     *)
(* exactly the rows that have an entity, a value and a date that parses, in *)
(* the order of the file: a row lacking one of them is dropped without any  *)
(* log line of its own, and every document the command puts in the          *)
(* collection has an entity, a value and a parsed date.                     *)
ValidRow(r) ==
    /\ r.State # << >>
    /\ r.Water_Level_m_bgl # << >>
    /\ r.Date # << >> /\ r.Date # <<0>>

Cleaned == csv.readable /\ csv.hasTime /\ runs >= 1 /\ pc # "read"

StoreFailed == \E p \in 1..Len(calls) : ~calls[p].ok

C16_CleaningDropsMalformedRows ==
    Cleaned =>
      LET rows == csv.rows
          valid == {k \in 1..Len(rows) : ValidRow(rows[k])}
      IN  /\ Len(log) >= 2
          /\ log[1] = Entry("INFO", "Loaded", Len(rows), 0)
          /\ log[2] = Entry("INFO", "After cleaning", Cardinality(valid), 0)
          /\ ~StoreFailed => \A k \in 1..Len(log) :
                \/ log[k][1] = "INFO"
                \/ log[k] = Entry("WARNING", "No valid records to insert", 0, 0) /\ valid = {}
          /\ Len(df) = Cardinality(valid)
          /\ \A k \in valid : \E j \in 1..Len(df) :
                df[j] = [state |-> rows[k].State, date |-> rows[k].Date,
                         water_level |-> rows[k].Water_Level_m_bgl]
          /\ \A j \in 1..(Len(df) - 1) : df[j].date[1] < df[j + 1].date[1]
          /\ (calls # << >> /\ calls[1].ok) =>
               \A k \in 1..Len(raw_col) :
                  /\ raw_col[k].state \in Entities
                  /\ raw_col[k].water_level \in 1..Len(rows)
                  /\ raw_col[k].date \in valid

C16_Witness ==
    /\ Cleaned
    /\ Succeeded
    /\ Len(csv.rows) = 5
    /\ csv.rows[2].Date = <<0>>
    /\ csv.rows[4].State = << >>
    /\ Len(raw_col) = 3
    /\ { raw_col[k].date : k \in 1..3 } = {1, 3, 5}

(* C18: when the file cannot be read, or has no Time column to drop, the    *)
(* step that fails leaves the collection exactly as it was: the run issues  *)
(* no delete_many and no insert_many, logs the error and returns normally.  *)
FailsBeforeClear == ~csv.readable \/ ~csv.hasTime

FailedBeforeClear ==
    (RunEnded /\ FailsBeforeClear) =>
      /\ calls = << >>
      /\ result = "returned"
      /\ ExitStatus(result) = 0
      /\ log[Len(log)][1] = "ERROR"
      /\ \A k \in 1..Len(log) : log[k][2] # "After cleaning"

StoreUntouched ==
    (pc = "read" /\ FailsBeforeClear) =>
      /\ raw_col' = raw_col
      /\ calls' = << >>
      /\ pc' = "idle"

C18_FailureBeforeClearKeepsStore == []FailedBeforeClear /\ [][StoreUntouched]_vars

C18_Witness ==
    /\ RunEnded
    /\ csv.readable /\ ~csv.hasTime
    /\ raw_col # << >>
    /\ calls = << >>
    /\ result = "returned"
    /\ log[Len(log)][1] = "ERROR"

(* C19: from the clear step on, between any two store calls of the run,    *)
(* the count of the latest progress line is the number of documents the     *)
(* collection holds (none when no progress line has been written); there    *)
(* is one progress line per insert_many that returned and none for one      *)
(* that raised; and the collection never holds more documents than          *)
(* cleaning kept.                                                           *)
Cleared == runs >= 1 /\ calls # << >> /\ calls[1].ok

LastProgress ==
    IF Observations = << >> THEN 0 ELSE Observations[Len(Observations)][3]

----------------------------------------------------------------------------
(* The pipeline: what the claims speak of *)

Has(e, fn) == \E k \in 1..Len(steps[e]) : steps[e][k][1] = fn
Raised(e, fn) == \E k \in 1..Len(steps[e]) : steps[e][k] = <<fn, "error">>
StoredCount(e) == Cardinality({k \in 1..Len(raw_col) : raw_col[k].state = e})
Counted(o) == Cardinality({e \in Entities : outcome[e] = o})
LastStep(e) == steps[e][Len(steps[e])]

\* The counters count the entities whose iteration ended that way.
CountersMatch ==
    /\ failed_states = Counted("failed")
    /\ successful_states = Counted("succeeded")

PipelineSafe ==
    \* an Exception ends the run only when the enumeration itself raised
    /\ ppc = "crashed" => state = "" /\ \A e \in Entities : steps[e] = << >>
    \* only a KeyboardInterrupt outside model fitting ends it otherwise
    /\ ppc = "interrupted" =>
         /\ LastStep(state)[2] = "interrupt"
         /\ LastStep(state)[1] # "train_and_predict"
    \* an entity one of whose steps raised an error is counted as failed
    /\ \A e \in Entities :
         (\E k \in 1..Len(steps[e]) : steps[e][k][2] = "error")
            => outcome[e] = "failed"
    /\ CountersMatch
    \* at the end every enumerated entity was processed, and the summary is out
    /\ ppc = "done" =>
         /\ states = {}
         /\ \A e \in Entities :
              StoredCount(e) > 0 <=> (steps[e] # << >> /\ outcome[e] # "none")
         /\ summary = <<successful_states, failed_states>>
    /\ ppc # "done" => summary = << >>

(* C4: whatever errors the per-entity steps raise (load, fit, render), the  *)
(* entity is counted as failed, no such error ends the run, every           *)
(* enumerated entity is processed, and the loop, once entered, always       *)
(* reaches the summary unless a KeyboardInterrupt outside model fitting     *)
(* ends the process.                                                        *)
C4_FailuresDoNotEndTheRun ==
    /\ []PipelineSafe
    /\ (ppc = "loop") ~> (ppc = "done" \/ ppc = "interrupted")

C4_Witness ==
    /\ ppc = "done"
    /\ steps["A"] = << <<"load_state_data", "error">> >>
    /\ Raised("B", "train_and_predict")
    /\ Raised("C", "save_predictions_graph")
    /\ summary = <<0, 3>>

(* C5 as claimed: an entity with fewer than MIN_DATA_POINTS stored records  *)
(* never has train_and_predict or the renderer called for it and is counted *)
(* neither as failed nor as succeeded.                                      *)
C5_Claimed_ShortNeverCounted ==
    \A e \in Entities :
        StoredCount(e) < MIN_DATA_POINTS =>
          /\ ~Has(e, "train_and_predict")
          /\ ~Has(e, "save_predictions_graph")
          /\ outcome[e] \notin {"failed", "succeeded"}

(* C5 as amended: an entity with fewer than MIN_DATA_POINTS stored records  *)
(* never has train_and_predict or the renderer called for it and is never   *)
(* counted as succeeded; it is counted as failed only when loading its      *)
(* history itself raised; when the load returns, neither counter changes    *)
(* and the loop goes on with the next entity.                               *)
C5_ShortIsSkipped ==
    /\ CountersMatch
    /\ \A e \in Entities :
         StoredCount(e) < MIN_DATA_POINTS =>
           /\ ~Has(e, "train_and_predict")
           /\ ~Has(e, "save_predictions_graph")
           /\ outcome[e] # "succeeded"
           /\ outcome[e] = "failed"
                => steps[e] = << <<"load_state_data", "error">> >>
           /\ steps[e] = << <<"load_state_data", "ok">> >>
                => /\ outcome[e] = "skipped"
                   /\ state = e => ppc \in {"loop", "done"}

C5_Witness ==
    /\ ppc = "done"
    /\ StoredCount("B") = MIN_DATA_POINTS - 1
    /\ steps["B"] = << <<"load_state_data", "ok">> >>
    /\ outcome["B"] = "skipped"
    /\ outcome["A"] = "succeeded"
    /\ summary = <<1, 0>>

(* C6: when model fitting raises for an entity, train_and_predict returns   *)
(* (None, None), the entity is counted as failed exactly once, the renderer *)
(* is not called for it, and the loop goes on with the next entity.         *)
C6_FitErrorCountsFailed ==
    /\ CountersMatch
    /\ \A e \in Entities :
         Raised(e, "train_and_predict") =>
           /\ outcome[e] = "failed"
           /\ ~Has(e, "save_predictions_graph")
           /\ LastStep(e)[1] = "train_and_predict"
           /\ state = e =>
                /\ forecast = [model |-> None, forecast |-> None]
                /\ ppc \in {"loop", "done"}

C6_Witness ==
    /\ Raised("C", "train_and_predict")
    /\ failed_states = 1
    /\ state = "A"
    /\ outcome["A"] = "succeeded"

(* C8 as claimed: for every entity whose forecast and processing succeeded, *)
(* classify_risk was called for it, after train_and_predict.                *)
C8_Claimed_ClassifiedAfterForecast ==
    \A e \in Entities :
        outcome[e] = "succeeded" =>
          \E k1, k2 \in 1..Len(steps[e]) :
              /\ k1 < k2
              /\ steps[e][k1] = <<"train_and_predict", "ok">>
              /\ steps[e][k2][1] = "classify_risk"

----------------------------------------------------------------------------
(* classify_risk: what the claim speaks of *)

Tiers == {"EMERGENCY", "WARNING", "SAFE"}

(* C7: classify_risk returns a tier for every level, and for every level L  *)
(* that is a number: EMERGENCY iff L < 3.0, WARNING iff 3.0 <= L < 5.0,     *)
(* SAFE iff L >= 5.0 (levels in thousandths).                               *)
C7_RiskTiers ==
    tier # "none" =>
      /\ tier \in Tiers
      /\ ~level.nan =>
           /\ tier = "EMERGENCY" <=> level.v < 3000
           /\ tier = "WARNING" <=> (3000 <= level.v /\ level.v < 5000)
           /\ tier = "SAFE" <=> level.v >= 5000

C7_Witness ==
    /\ level = [nan |-> FALSE, v |-> 3000]
    /\ tier = "WARNING"

(* C12: a KeyboardInterrupt raised while the model is fitted costs only the *)
(* entity being fitted: train_and_predict hands back (None, None), the      *)
(* entity is counted as failed and never rendered, the run stays in its     *)
(* loop, and from there it goes on to the summary (or to a later entity on  *)
(* which a second interrupt, outside model fitting, ends the process).      *)
FitInterrupted(e) == steps[e] # << >> /\ LastStep(e) = <<"train_and_predict", "interrupt">>

FitInterruptSafe ==
    \A e \in Entities :
      /\ (\E k \in 1..Len(steps[e]) : steps[e][k] = <<"train_and_predict", "interrupt">>)
           => FitInterrupted(e)
      /\ FitInterrupted(e) =>
           /\ outcome[e] = "failed"
           /\ ~Has(e, "save_predictions_graph")
           /\ state = e =>
                /\ forecast = [model |-> None, forecast |-> None]
                /\ ppc \in {"loop", "done"}

C12_FitInterruptAbortsOneEntity ==
    /\ []FitInterruptSafe
    /\ \A e \in Entities :
         (state = e /\ FitInterrupted(e) /\ ppc = "loop")
            ~> (ppc = "done" \/ (ppc = "interrupted" /\ state # e))

C12_Witness ==
    /\ ppc = "done"
    /\ summary = <<1, 1>>
    /\ state # ""
    /\ outcome[state] = "succeeded"
    /\ \E e \in Entities : e # state /\ FitInterrupted(e)

(* C13: once the model of an entity has been fitted, the entity has at     *)
(* least MIN_DATA_POINTS records and train_and_predict has returned exactly *)
(* YEARS_TO_PREDICT rows: the last YEARS_TO_PREDICT rows of the model's     *)
(* output, in increasing order of period, each later than the latest        *)
(* period stored for the entity.                                            *)
FitSucceeded ==
    /\ state # ""
    /\ \E k \in 1..Len(steps[state]) : steps[state][k] = <<"train_and_predict", "ok">>

LastObserved(e) ==
    CHOOSE d \in { raw_col[k].date : k \in 1..Len(raw_col) } :
       /\ \E k \in 1..Len(raw_col) : raw_col[k].state = e /\ raw_col[k].date = d
       /\ \A k \in 1..Len(raw_col) : raw_col[k].state = e => raw_col[k].date <= d

C13_ForecastIsTheHorizon ==
    FitSucceeded =>
      LET f == forecast.forecast
          output == predict(make_future_dataframe(hist))
      IN  /\ StoredCount(state) >= MIN_DATA_POINTS
          /\ Len(hist) = StoredCount(state)
          /\ Len(output) = Len(hist) + YEARS_TO_PREDICT
          /\ Len(f) = YEARS_TO_PREDICT
          /\ \A k \in 1..YEARS_TO_PREDICT : f[k] = output[Len(hist) + k]
          /\ \A k \in 1..(YEARS_TO_PREDICT - 1) : f[k].ds < f[k + 1].ds
          /\ \A k \in 1..YEARS_TO_PREDICT : f[k].ds > LastObserved(state)

C13_Witness ==
    /\ ppc = "render"
    /\ FitSucceeded
    /\ Len(hist) = MIN_DATA_POINTS
    /\ LastObserved(state) = MIN_DATA_POINTS
    /\ forecast.forecast =
         [k \in 1..YEARS_TO_PREDICT |-> [ds |-> MIN_DATA_POINTS + k]]

(* C14: every entity the store enumerates is processed once and ends in    *)
(* exactly one of three ways: succeeded (fit and render both succeeded),    *)
(* failed (an error in load, fit or render) or skipped (too short a         *)
(* history). Each ending adds exactly 1 to its count and nothing to the     *)
(* others, so at the summary succeeded + failed + skipped is the number of  *)
(* distinct entity ids in the store.                                        *)
len_states == Cardinality(distinct(raw_col))

Calls(e, fn) == Cardinality({k \in 1..Len(steps[e]) : steps[e][k][1] = fn})
Did(e, fn, out) == \E k \in 1..Len(steps[e]) : steps[e][k] = <<fn, out>>

Accounted ==
    /\ CountersMatch
    /\ \A e \in Entities :
         /\ Calls(e, "load_state_data") <= 1
         /\ Calls(e, "train_and_predict") <= 1
         /\ Calls(e, "save_predictions_graph") <= 1
         /\ outcome[e] = "succeeded" <=>
              Did(e, "train_and_predict", "ok") /\ Did(e, "save_predictions_graph", "ok")
         /\ outcome[e] = "skipped" <=>
              /\ steps[e] = << <<"load_state_data", "ok">> >>
              /\ StoredCount(e) < MIN_DATA_POINTS
              /\ (state = e => ppc \notin {"load", "fit"})
         /\ outcome[e] = "failed" <=>
              \/ Did(e, "load_state_data", "error")
              \/ Did(e, "train_and_predict", "error")
              \/ Did(e, "train_and_predict", "interrupt")
              \/ Did(e, "save_predictions_graph", "error")
    /\ ppc = "done" =>
         /\ Cardinality({e \in Entities : outcome[e] # "none"}) = len_states
         /\ successful_states + failed_states = len_states - Counted("skipped")
         /\ summary = <<successful_states, failed_states>>

EntityEnds == ppc \in {"load", "fit", "render"} /\ ppc' = "loop"

CountedOnce ==
    LET ds == successful_states' - successful_states
        df_ == failed_states' - failed_states
        dk == Counted("skipped")' - Counted("skipped")
    IN  /\ ds \in {0, 1} /\ df_ \in {0, 1} /\ dk \in {0, 1}
        /\ ds + df_ + dk = (IF EntityEnds THEN 1 ELSE 0)
        /\ \A e \in Entities : outcome[e] # "none" => outcome'[e] = outcome[e]

C14_EveryEntityCountedOnce == []Accounted /\ [][CountedOnce]_vars

C14_Witness ==
    /\ ppc = "done"
    /\ len_states = 3
    /\ Counted("succeeded") = 1 /\ Counted("failed") = 1 /\ Counted("skipped") = 1
    /\ summary = <<1, 1>>

(* C17 as claimed: every character of the id that is neither a letter nor  *)
(* a digit is replaced, so that the part of the file name that comes from   *)
(* the id holds only letters, digits and the replacement character.         *)
C17_Claimed_NonAlnumReplaced ==
    filepath # << >> =>
      \A k \in 1..Len(state_name) : filepath.name[k] \in Alnum \cup {"_"}

(* C17: the file name is the id with every space replaced by an underscore  *)
(* and every other character kept, letter or not, followed by               *)
(* _forecast.png, in the directory predictions: it holds no space, and      *)
(* equal ids give equal names.                                              *)
C17_SpacesReplaced ==
    filepath # << >> =>
      LET n == Len(state_name) IN
      /\ filepath.dir = "predictions"
      /\ Len(filepath.name) = n + Len(Suffix)
      /\ \A k \in 1..n :
           /\ state_name[k] = " " => filepath.name[k] = "_"
           /\ state_name[k] # " " => filepath.name[k] = state_name[k]
      /\ \A k \in 1..Len(Suffix) : filepath.name[n + k] = Suffix[k]
      /\ \A k \in 1..Len(filepath.name) : filepath.name[k] # " "

C17_Witness ==
    /\ state_name = <<" ", "&", " ">>
    /\ filepath # << >>
    /\ SubSeq(filepath.name, 1, 3) = <<"_", "&", "_">>

============================================================================
